---- MODULE Spec2Model ----
(***************************************************************************)
(* CCA calculation engine (services/calculatorService.ts).                 *)
(*                                                                         *)
(* calculateCCAResults, summarizeResults and calculateMonthlyAccruals are  *)
(* run on one Configuration in the order in which App evaluates them.      *)
(*                                                                         *)
(* Numbers: a JavaScript number is modelled by an exact rational           *)
(* [n |-> numerator, d |-> denominator > 0] in lowest terms.               *)
(* Dates: a JavaScript Date is modelled by its instant, counted in hours   *)
(* since 1970-01-01T00:00Z (one hour = 3 600 000 ms).  The host's local    *)
(* time zone is the fixed offset tz (hours east of UTC): the code builds   *)
(* injection dates with the local-time constructor new Date(y, m, d) and   *)
(* parses the end date with new Date("YYYY-MM-DD"), which is UTC midnight. *)
(***************************************************************************)
EXTENDS Integers, Sequences, FiniteSets, TLC

VARIABLES
    tz,        \* host time-zone offset, hours east of UTC
    config,    \* the CCAConfig handed to the engine
    pc,        \* position in the evaluation
    results,   \* CalculationResult[] returned by calculateCCAResults
    summary,   \* FinancialSummary returned by summarizeResults
    curr,      \* calculateMonthlyAccruals: the walk's cursor (an instant)
    accruals,  \* calculateMonthlyAccruals: the records pushed so far
    callers,   \* several callers sharing config: each one's position, locals and outputs
    ui         \* App: the useState values and the dependencies its effects last saw

vars == <<tz, config, pc, results, summary, curr, accruals, callers, ui>>

----------------------------------------------------------------------------
(* Bounds of the model *)

MaxPeriods == 2

----------------------------------------------------------------------------
(* Exact rational arithmetic standing for JavaScript numbers *)

Abs(x) == IF x < 0 THEN -x ELSE x

RECURSIVE Gcd(_, _)
Gcd(a, b) == IF b = 0 THEN a ELSE Gcd(b, a % b)

Rat(n, d) ==
    LET s == IF d < 0 THEN -1 ELSE 1
        g == Gcd(Abs(n), Abs(d))
    IN  [n |-> (s * n) \div g, d |-> (s * d) \div g]

Num(i) == [n |-> i, d |-> 1]

RMul(a, b) ==
    LET g1 == Gcd(Abs(a.n), b.d)
        g2 == Gcd(Abs(b.n), a.d)
    IN  Rat((a.n \div g1) * (b.n \div g2), (a.d \div g2) * (b.d \div g1))

RDiv(a, b) == RMul(a, IF b.n < 0 THEN [n |-> -b.d, d |-> -b.n] ELSE [n |-> b.d, d |-> b.n])

RAdd(a, b) ==
    LET g == Gcd(a.d, b.d)
    IN  Rat(a.n * (b.d \div g) + b.n * (a.d \div g), (a.d \div g) * b.d)

RNeg(a) == [n |-> -a.n, d |-> a.d]

RSub(a, b) == RAdd(a, RNeg(b))

----------------------------------------------------------------------------
(* The JavaScript Date operations the engine uses *)

\* Days from 1970-01-01 to the civil date y-m-d (m in 1..12), proleptic Gregorian.
DaysFromCivil(y, m, d) ==
    LET yy  == IF m <= 2 THEN y - 1 ELSE y
        era == yy \div 400
        yoe == yy - era * 400
        mp  == IF m > 2 THEN m - 3 ELSE m + 9
        doy == ((153 * mp + 2) \div 5) + d - 1
        doe == yoe * 365 + (yoe \div 4) - (yoe \div 100) + doy
    IN  era * 146097 + doe - 719468

\* The civil date [year, month (1..12), day] of day number z.
CivilFromDays(z) ==
    LET zz  == z + 719468
        era == zz \div 146097
        doe == zz - era * 146097
        yoe == (doe - (doe \div 1460) + (doe \div 36524) - (doe \div 146096)) \div 365
        doy == doe - (365 * yoe + (yoe \div 4) - (yoe \div 100))
        mp  == (5 * doy + 2) \div 153
        d   == doy - ((153 * mp + 2) \div 5) + 1
        m   == IF mp < 10 THEN mp + 3 ELSE mp - 9
        y   == yoe + era * 400 + (IF m <= 2 THEN 1 ELSE 0)
    IN  [year |-> y, month |-> m, day |-> d]

\* new Date(year, monthIndex, day): LOCAL midnight of that civil day; a
\* monthIndex outside 0..11 and day 0 roll over as MakeDay does.
DateLocal(year, monthIndex, day) ==
    LET y == year + (monthIndex \div 12)
        m == (monthIndex % 12) + 1
    IN  (DaysFromCivil(y, m, 1) + day - 1) * 24 - tz

\* new Date("YYYY-MM-DD"): a date-only ISO string is UTC midnight.
DateParse(iso) == DaysFromCivil(iso.y, iso.m, iso.d) * 24

\* The local civil fields of an instant.
LocalFields(t) == CivilFromDays((t + tz) \div 24)

getFullYear(t) == LocalFields(t).year
getMonth(t) == LocalFields(t).month - 1
getDate(t) == LocalFields(t).day
getTime(t) == t

\* curr.setMonth(monthIndex): same local day and time of day, other month.
setMonth(t, monthIndex) ==
    DateLocal(getFullYear(t), monthIndex, getDate(t)) + ((t + tz) % 24)

\* Math.ceil(a / b) for an integer a and b > 0.
MathCeil(a, b) == -((-a) \div b)

\* injectionDate.toISOString().split('T')[0]: the UTC civil date of an instant.
toISODate(t) ==
    LET c == CivilFromDays(t \div 24)
    IN  [y |-> c.year, m |-> c.month, d |-> c.day]

----------------------------------------------------------------------------
(* calculateCCAResults *)

PersonType == {"Personne Morale", "Personne Physique"}
CalculationBase == {"Mensuel", "Journalier"}

\* const injectionDate = new Date(p.year, p.month - 1, 1)
InjectionDate(p) == DateLocal(p.year, p.month - 1, 1)

\* Faulty variant: the monthly duration without 'if (end < injectionDate) durationValue = 0'.
DurationValue_NoClamp(cfg, p) ==
    LET end == DateParse(cfg.endDate)
        injectionDate == InjectionDate(p)
    IN  IF cfg.calculationBase = "Mensuel"
        THEN (getFullYear(end) - getFullYear(injectionDate)) * 12
             + (getMonth(end) - getMonth(injectionDate)) + 1
        ELSE LET diff == getTime(end) - getTime(injectionDate)
                 durationInMs == IF diff < 0 THEN 0 ELSE diff
             IN  MathCeil(durationInMs, 24)

\* Faulty variant: the monthly duration counted without the closing '+ 1'.
DurationValue_Exclusive(cfg, p) ==
    LET end == DateParse(cfg.endDate)
        injectionDate == InjectionDate(p)
    IN  IF cfg.calculationBase = "Mensuel"
        THEN IF end < injectionDate
             THEN 0
             ELSE (getFullYear(end) - getFullYear(injectionDate)) * 12
                  + (getMonth(end) - getMonth(injectionDate))
        ELSE LET diff == getTime(end) - getTime(injectionDate)
                 durationInMs == IF diff < 0 THEN 0 ELSE diff
             IN  MathCeil(durationInMs, 24)

\* The duration branch of calculateCCAResults, in months or in days.
DurationValue(cfg, p) ==
    LET end == DateParse(cfg.endDate)
        injectionDate == InjectionDate(p)
    IN  IF cfg.calculationBase = "Mensuel"
        THEN LET startYear  == getFullYear(injectionDate)
                 startMonth == getMonth(injectionDate)
                 endYear    == getFullYear(end)
                 endMonth   == getMonth(end)
             IN  IF end < injectionDate
                 THEN 0
                 ELSE (endYear - startYear) * 12 + (endMonth - startMonth) + 1
        ELSE LET diff == getTime(end) - getTime(injectionDate)
                 durationInMs == IF diff < 0 THEN 0 ELSE diff
             IN  MathCeil(durationInMs, 24)

\* Faulty variant: the two withholding rates exchanged.
getRasRate_Swapped(cfg, type) ==
    IF type = "Personne Morale"
    THEN RDiv(Num(cfg.rasPhysiqueRate), Num(100))
    ELSE RDiv(Num(cfg.rasMoraleRate), Num(100))

\* const getRasRate = (type) => type === "Personne Morale" ? rasMoraleRate / 100 : rasPhysiqueRate / 100
getRasRate(cfg, type) ==
    IF type = "Personne Morale"
    THEN RDiv(Num(cfg.rasMoraleRate), Num(100))
    ELSE RDiv(Num(cfg.rasPhysiqueRate), Num(100))

\* Faulty variant: the daily basis on a 365-day year.
InterestHT_365(cfg, montant, durationValue) ==
    LET tRate == RDiv(Num(cfg.annualRate), Num(100))
        prod  == RMul(RMul(montant, tRate), Num(durationValue))
    IN  IF cfg.calculationBase = "Mensuel"
        THEN RDiv(prod, Num(12))
        ELSE RDiv(prod, Num(365))

\* Pre-tax interest of one part: (montant * tRate * durationValue) / 12 or / 360.
InterestHT(cfg, montant, durationValue) ==
    LET tRate == RDiv(Num(cfg.annualRate), Num(100))
        prod  == RMul(RMul(montant, tRate), Num(durationValue))
    IN  IF cfg.calculationBase = "Mensuel"
        THEN RDiv(prod, Num(12))
        ELSE RDiv(prod, Num(360))

\* Faulty variant: the reported share of part 2 clamped to 0..100.
PctPart2_Clamped(p) == IF p.pctPart1 > 100 THEN 0 ELSE 100 - p.pctPart1

\* pctPart2: (100 - p.pctPart1)
PctPart2(p) == 100 - p.pctPart1

\* Faulty variant: the withholding added instead of deducted.
Net_SignSlip(interestTTC, ras) == RAdd(interestTTC, ras)

\* const net1 = interestTTC1 - ras1; const net2 = interestTTC2 - ras2
Net(interestTTC, ras) == RSub(interestTTC, ras)

\* Faulty variant: the part-2 share taken from 100 instead of 1.
Pct2_OfHundred(pct1) == RSub(Num(100), pct1)

\* Faulty variant: a part-2 share below zero is floored at zero.
Pct2_Floored(pct1) == IF RSub(Num(1), pct1).n < 0 THEN Num(0) ELSE RSub(Num(1), pct1)

\* const pct2 = 1 - pct1
Pct2(pct1) == RSub(Num(1), pct1)

\* The body of periods.map((p) => ...): the CalculationResult of one injection.
PeriodResult(cfg, p) ==
    LET injectionDate == InjectionDate(p)
        durationValue == DurationValue(cfg, p)
        amountTotal   == Num(p.amount)
        pct1          == RDiv(Num(p.pctPart1), Num(100))
        pct2          == Pct2(pct1)
        montantPart1  == RMul(amountTotal, pct1)
        montantPart2  == RMul(amountTotal, pct2)
        interestHT1   == InterestHT(cfg, montantPart1, durationValue)
        interestHT2   == InterestHT(cfg, montantPart2, durationValue)
        tva1          == RMul(interestHT1, RDiv(Num(cfg.tvaRate), Num(100)))
        tva2          == RMul(interestHT2, RDiv(Num(cfg.tvaRate), Num(100)))
        interestTTC1  == RAdd(interestHT1, tva1)
        interestTTC2  == RAdd(interestHT2, tva2)
        rasRate1      == getRasRate(cfg, p.typePart1)
        rasRate2      == getRasRate(cfg, p.typePart2)
        ras1          == RMul(interestHT1, rasRate1)
        ras2          == RMul(interestHT2, rasRate2)
        net1          == Net(interestTTC1, ras1)
        net2          == Net(interestTTC2, ras2)
    IN  [ id            |-> p.id,
          periodLabel   |-> <<p.month, p.year>>,
          dateDeblocage |-> toISODate(injectionDate),
          amountTotal   |-> amountTotal,
          durationValue |-> durationValue,
          durationUnit  |-> IF cfg.calculationBase = "Mensuel" THEN "Mois" ELSE "Jours",
          montantPart1  |-> montantPart1,
          pctPart1      |-> p.pctPart1,
          typePart1     |-> p.typePart1,
          interestHT1   |-> interestHT1,
          tva1          |-> tva1,
          rasRate1      |-> RMul(rasRate1, Num(100)),
          ras1          |-> ras1,
          interestTTC1  |-> interestTTC1,
          net1          |-> net1,
          montantPart2  |-> montantPart2,
          pctPart2      |-> PctPart2(p),
          typePart2     |-> p.typePart2,
          interestHT2   |-> interestHT2,
          tva2          |-> tva2,
          rasRate2      |-> RMul(rasRate2, Num(100)),
          ras2          |-> ras2,
          interestTTC2  |-> interestTTC2,
          net2          |-> net2 ]

\* Faulty variant: the results in reverse input order.
calculateCCAResults_Reversed(cfg) ==
    [i \in 1..Len(cfg.periods) |->
        PeriodResult(cfg, cfg.periods[Len(cfg.periods) + 1 - i])]

\* periods.map: one result per injection, in input order.
calculateCCAResults(cfg) ==
    [i \in 1..Len(cfg.periods) |-> PeriodResult(cfg, cfg.periods[i])]

----------------------------------------------------------------------------
(* summarizeResults *)

ZeroSummary ==
    [ totalCapital     |-> Num(0), totalInterestHT  |-> Num(0),
      totalInterestHT1 |-> Num(0), totalInterestHT2 |-> Num(0),
      totalInterestTTC |-> Num(0), totalTVA         |-> Num(0),
      totalRAS         |-> Num(0), totalRAS1        |-> Num(0),
      totalRAS2        |-> Num(0), netTotal         |-> Num(0),
      totalRepayment   |-> Num(0) ]

\* Faulty variant: totalRepayment accumulated without the capital.
SummaryStep_RepaymentWithoutCapital(acc, r) ==
    [ totalCapital     |-> RAdd(acc.totalCapital, r.amountTotal),
      totalInterestHT  |-> RAdd(RAdd(acc.totalInterestHT, r.interestHT1), r.interestHT2),
      totalInterestHT1 |-> RAdd(acc.totalInterestHT1, r.interestHT1),
      totalInterestHT2 |-> RAdd(acc.totalInterestHT2, r.interestHT2),
      totalInterestTTC |-> RAdd(RAdd(acc.totalInterestTTC, r.interestTTC1), r.interestTTC2),
      totalTVA         |-> RAdd(RAdd(acc.totalTVA, r.tva1), r.tva2),
      totalRAS         |-> RAdd(RAdd(acc.totalRAS, r.ras1), r.ras2),
      totalRAS1        |-> RAdd(acc.totalRAS1, r.ras1),
      totalRAS2        |-> RAdd(acc.totalRAS2, r.ras2),
      netTotal         |-> RAdd(RAdd(acc.netTotal, r.net1), r.net2),
      totalRepayment   |-> RAdd(RAdd(RAdd(acc.totalRepayment, Num(0)),
                                     r.interestTTC1), r.interestTTC2) ]

\* Faulty variant: totalCapital taken from the current result instead of accumulated.
SummaryStep_LastCapital(acc, r) ==
    [ totalCapital     |-> r.amountTotal,
      totalInterestHT  |-> RAdd(RAdd(acc.totalInterestHT, r.interestHT1), r.interestHT2),
      totalInterestHT1 |-> RAdd(acc.totalInterestHT1, r.interestHT1),
      totalInterestHT2 |-> RAdd(acc.totalInterestHT2, r.interestHT2),
      totalInterestTTC |-> RAdd(RAdd(acc.totalInterestTTC, r.interestTTC1), r.interestTTC2),
      totalTVA         |-> RAdd(RAdd(acc.totalTVA, r.tva1), r.tva2),
      totalRAS         |-> RAdd(RAdd(acc.totalRAS, r.ras1), r.ras2),
      totalRAS1        |-> RAdd(acc.totalRAS1, r.ras1),
      totalRAS2        |-> RAdd(acc.totalRAS2, r.ras2),
      netTotal         |-> RAdd(RAdd(acc.netTotal, r.net1), r.net2),
      totalRepayment   |-> RAdd(RAdd(RAdd(acc.totalRepayment, r.amountTotal),
                                     r.interestTTC1), r.interestTTC2) ]

\* The reducer callback (acc, curr) => ({...}).
SummaryStep(acc, r) ==
    [ totalCapital     |-> RAdd(acc.totalCapital, r.amountTotal),
      totalInterestHT  |-> RAdd(RAdd(acc.totalInterestHT, r.interestHT1), r.interestHT2),
      totalInterestHT1 |-> RAdd(acc.totalInterestHT1, r.interestHT1),
      totalInterestHT2 |-> RAdd(acc.totalInterestHT2, r.interestHT2),
      totalInterestTTC |-> RAdd(RAdd(acc.totalInterestTTC, r.interestTTC1), r.interestTTC2),
      totalTVA         |-> RAdd(RAdd(acc.totalTVA, r.tva1), r.tva2),
      totalRAS         |-> RAdd(RAdd(acc.totalRAS, r.ras1), r.ras2),
      totalRAS1        |-> RAdd(acc.totalRAS1, r.ras1),
      totalRAS2        |-> RAdd(acc.totalRAS2, r.ras2),
      netTotal         |-> RAdd(RAdd(acc.netTotal, r.net1), r.net2),
      totalRepayment   |-> RAdd(RAdd(RAdd(acc.totalRepayment, r.amountTotal),
                                     r.interestTTC1), r.interestTTC2) ]

RECURSIVE Reduce(_, _)
Reduce(rs, acc) ==
    IF rs = <<>> THEN acc ELSE Reduce(Tail(rs), SummaryStep(acc, Head(rs)))

\* results.reduce(step, zero)
summarizeResults(rs) == Reduce(rs, ZeroSummary)

----------------------------------------------------------------------------
(* calculateMonthlyAccruals *)

\* let minDate = new Date(periods[0]...); periods.forEach(p => { if (d < minDate) minDate = d })
RECURSIVE MinDateFrom(_, _)
MinDateFrom(ps, minDate) ==
    IF ps = <<>> THEN minDate
    ELSE LET d == InjectionDate(Head(ps))
         IN  MinDateFrom(Tail(ps), IF d < minDate THEN d ELSE minDate)

MinDate(ps) == MinDateFrom(ps, InjectionDate(ps[1]))

\* Faulty variant: the walk started at the first injection of the list, the
\* search for the earliest one left out.
WalkStart_FirstPeriod(cfg) ==
    LET minDate == InjectionDate(cfg.periods[1])
    IN  DateLocal(getFullYear(minDate), getMonth(minDate), 1)

\* const curr = new Date(minDate.getFullYear(), minDate.getMonth(), 1)
WalkStart(cfg) ==
    LET minDate == MinDate(cfg.periods)
    IN  DateLocal(getFullYear(minDate), getMonth(minDate), 1)

\* Faulty variant: February always counted as 28 days.
LastDayOfMonth_NoLeapYear(year, month) ==
    IF month = 2 THEN 28 ELSE getDate(DateLocal(year, month, 0))

\* new Date(year, month, 0).getDate(), month being 1..12
LastDayOfMonth(year, month) == getDate(DateLocal(year, month, 0))

\* Faulty variant: the month's interest by actual days over 360 on both bases.
MonthInterest_ActualDays(cfg, montant, year, month) ==
    LET tRate == RDiv(Num(cfg.annualRate), Num(100))
    IN  RDiv(RMul(RMul(montant, tRate), Num(LastDayOfMonth(year, month))), Num(360))

\* One injection's two-part interest for a single month.
MonthInterest(cfg, montant, year, month) ==
    LET tRate == RDiv(Num(cfg.annualRate), Num(100))
    IN  IF cfg.calculationBase = "Mensuel"
        THEN RDiv(RMul(montant, tRate), Num(12))
        ELSE RDiv(RMul(RMul(montant, tRate), Num(LastDayOfMonth(year, month))), Num(360))

\* Faulty variant: an injection becomes active the month after its own ('<' for '<=').
AccrueInjection_Strict(cfg, acc, p, c) ==
    LET injectionDate == InjectionDate(p)
        month == getMonth(c) + 1
        year  == getFullYear(c)
        p1 == RMul(Num(p.amount), RDiv(Num(p.pctPart1), Num(100)))
        p2 == RMul(Num(p.amount), RSub(Num(1), RDiv(Num(p.pctPart1), Num(100))))
        i1 == MonthInterest(cfg, p1, year, month)
        i2 == MonthInterest(cfg, p2, year, month)
        r1 == RMul(i1, getRasRate(cfg, p.typePart1))
        r2 == RMul(i2, getRasRate(cfg, p.typePart2))
    IN  IF injectionDate < c
        THEN [ activeCapital   |-> RAdd(acc.activeCapital, Num(p.amount)),
               monthInterestHT |-> RAdd(acc.monthInterestHT, RAdd(i1, i2)),
               monthRAS        |-> RAdd(acc.monthRAS, RAdd(r1, r2)) ]
        ELSE acc

\* Faulty variant: only the injections of the month itself are counted ('===' for '<=').
AccrueInjection_OnlyThisMonth(cfg, acc, p, c) ==
    LET injectionDate == InjectionDate(p)
        month == getMonth(c) + 1
        year  == getFullYear(c)
        p1 == RMul(Num(p.amount), RDiv(Num(p.pctPart1), Num(100)))
        p2 == RMul(Num(p.amount), RSub(Num(1), RDiv(Num(p.pctPart1), Num(100))))
        i1 == MonthInterest(cfg, p1, year, month)
        i2 == MonthInterest(cfg, p2, year, month)
        r1 == RMul(i1, getRasRate(cfg, p.typePart1))
        r2 == RMul(i2, getRasRate(cfg, p.typePart2))
    IN  IF injectionDate = c
        THEN [ activeCapital   |-> RAdd(acc.activeCapital, Num(p.amount)),
               monthInterestHT |-> RAdd(acc.monthInterestHT, RAdd(i1, i2)),
               monthRAS        |-> RAdd(acc.monthRAS, RAdd(r1, r2)) ]
        ELSE acc

\* Faulty variant: part 2 withheld at the rate of part 1's classification.
AccrueInjection_OneRasRate(cfg, acc, p, c) ==
    LET injectionDate == InjectionDate(p)
        month == getMonth(c) + 1
        year  == getFullYear(c)
        p1 == RMul(Num(p.amount), RDiv(Num(p.pctPart1), Num(100)))
        p2 == RMul(Num(p.amount), RSub(Num(1), RDiv(Num(p.pctPart1), Num(100))))
        i1 == MonthInterest(cfg, p1, year, month)
        i2 == MonthInterest(cfg, p2, year, month)
        r1 == RMul(i1, getRasRate(cfg, p.typePart1))
        r2 == RMul(i2, getRasRate(cfg, p.typePart1))
    IN  IF injectionDate <= c
        THEN [ activeCapital   |-> RAdd(acc.activeCapital, Num(p.amount)),
               monthInterestHT |-> RAdd(acc.monthInterestHT, RAdd(i1, i2)),
               monthRAS        |-> RAdd(acc.monthRAS, RAdd(r1, r2)) ]
        ELSE acc

\* The body of periods.forEach(p => ...) inside the while loop.
AccrueInjection(cfg, acc, p, c) ==
    LET injectionDate == InjectionDate(p)
        month == getMonth(c) + 1
        year  == getFullYear(c)
        p1 == RMul(Num(p.amount), RDiv(Num(p.pctPart1), Num(100)))
        p2 == RMul(Num(p.amount), RSub(Num(1), RDiv(Num(p.pctPart1), Num(100))))
        i1 == MonthInterest(cfg, p1, year, month)
        i2 == MonthInterest(cfg, p2, year, month)
        r1 == RMul(i1, getRasRate(cfg, p.typePart1))
        r2 == RMul(i2, getRasRate(cfg, p.typePart2))
    IN  IF injectionDate <= c
        THEN [ activeCapital   |-> RAdd(acc.activeCapital, Num(p.amount)),
               monthInterestHT |-> RAdd(acc.monthInterestHT, RAdd(i1, i2)),
               monthRAS        |-> RAdd(acc.monthRAS, RAdd(r1, r2)) ]
        ELSE acc

RECURSIVE AccrueAll(_, _, _, _)
AccrueAll(cfg, acc, ps, c) ==
    IF ps = <<>> THEN acc
    ELSE AccrueAll(cfg, AccrueInjection(cfg, acc, Head(ps), c), Tail(ps), c)

\* One iteration of the while loop: the MonthlyAccrual pushed for cursor c.
MonthRecord(cfg, c) ==
    LET month == getMonth(c) + 1
        year  == getFullYear(c)
        acc   == AccrueAll(cfg, [activeCapital |-> Num(0), monthInterestHT |-> Num(0),
                                 monthRAS |-> Num(0)], cfg.periods, c)
        monthTVA == RMul(acc.monthInterestHT, RDiv(Num(cfg.tvaRate), Num(100)))
        monthNet == RSub(RAdd(acc.monthInterestHT, monthTVA), acc.monthRAS)
    IN  [ month         |-> month,
          year          |-> year,
          label         |-> <<month, year>>,
          activeCapital |-> acc.activeCapital,
          interestHT    |-> acc.monthInterestHT,
          tva           |-> monthTVA,
          ras           |-> acc.monthRAS,
          net           |-> monthNet ]

\* while (curr <= endLimit) { ...push...; curr.setMonth(curr.getMonth() + 1) }
RECURSIVE WalkFrom(_, _, _)
WalkFrom(cfg, c, acc) ==
    IF c <= DateParse(cfg.endDate)
    THEN WalkFrom(cfg, setMonth(c, getMonth(c) + 1), Append(acc, MonthRecord(cfg, c)))
    ELSE acc

\* The whole of calculateMonthlyAccruals as a function of its argument.
calculateMonthlyAccruals(cfg) ==
    IF Len(cfg.periods) = 0 THEN <<>> ELSE WalkFrom(cfg, WalkStart(cfg), <<>>)

----------------------------------------------------------------------------
(* Configurations the engine is run on *)

TimeZones == {-5, 0, 1}

EndDates ==
    { [y |-> 2025, m |-> 5, d |-> 31],
      [y |-> 2025, m |-> 2, d |-> 1],
      [y |-> 2024, m |-> 3, d |-> 15] }

RateSets ==
    { [annualRate |-> 5,  tvaRate |-> 10, rasMoraleRate |-> 30, rasPhysiqueRate |-> 15],
      [annualRate |-> -4, tvaRate |-> 20, rasMoraleRate |-> 10, rasPhysiqueRate |-> 20] }

InjectionMonths == { <<2, 2024>>, <<2, 2025>> }

Splits ==
    { [amount |-> 100000, pctPart1 |-> 80,  typePart1 |-> "Personne Morale",   typePart2 |-> "Personne Physique"],
      [amount |-> 45000,  pctPart1 |-> 30,  typePart1 |-> "Personne Physique", typePart2 |-> "Personne Morale"],
      [amount |-> 20000,  pctPart1 |-> 150, typePart1 |-> "Personne Physique", typePart2 |-> "Personne Physique"] }

\* An injection without its identifier.
Injections ==
    { [month |-> my[1], year |-> my[2], amount |-> s.amount, pctPart1 |-> s.pctPart1,
       typePart1 |-> s.typePart1, typePart2 |-> s.typePart2] : my \in InjectionMonths, s \in Splits }

\* The i-th injection of a list carries the identifier i.
WithIds(ps) ==
    [i \in 1..Len(ps) |->
        [id |-> i, month |-> ps[i].month, year |-> ps[i].year, amount |-> ps[i].amount,
         pctPart1 |-> ps[i].pctPart1, typePart1 |-> ps[i].typePart1, typePart2 |-> ps[i].typePart2]]

PeriodLists == UNION { [1..n -> Injections] : n \in 0..MaxPeriods }

Uniform(ps) ==
    \A i, j \in 1..Len(ps) :
        /\ ps[i].pctPart1 = ps[j].pctPart1
        /\ ps[i].typePart1 = ps[j].typePart1
        /\ ps[i].typePart2 = ps[j].typePart2

MakeConfig(ps, rates, endDate, base) ==
    [ periods         |-> WithIds(ps),
      annualRate      |-> rates.annualRate,
      tvaRate         |-> rates.tvaRate,
      rasMoraleRate   |-> rates.rasMoraleRate,
      rasPhysiqueRate |-> rates.rasPhysiqueRate,
      endDate         |-> endDate,
      splitMode       |-> IF Uniform(ps) THEN "Global" ELSE "Variable",
      calculationBase |-> base ]

----------------------------------------------------------------------------
(* The evaluation: results, then summary, then the monthly walk *)

Init ==
    /\ tz \in TimeZones
    /\ callers = <<>>
    /\ ui = <<>>
    /\ \E ps \in PeriodLists, rates \in RateSets, e \in EndDates, base \in CalculationBase :
          config = MakeConfig(ps, rates, e, base)
    /\ pc = "start"
    /\ results = <<>>
    /\ summary = ZeroSummary
    /\ curr = 0
    /\ accruals = <<>>

\* const results = useMemo(() => calculateCCAResults(config), [config])
Evaluate ==
    /\ pc = "start"
    /\ results' = calculateCCAResults(config)
    /\ pc' = "evaluated"
    /\ UNCHANGED <<ui, callers, tz, config, summary, curr, accruals>>

\* const summary = useMemo(() => summarizeResults(results), [results])
Summarize ==
    /\ pc = "evaluated"
    /\ summary' = summarizeResults(results)
    /\ pc' = "summarized"
    /\ UNCHANGED <<ui, callers, tz, config, results, curr, accruals>>

\* Faulty variant: without the early return the walk starts at a default month
\* (January 2025) and pushes its record.
WalkEmpty_DefaultMonth ==
    /\ pc = "summarized"
    /\ Len(config.periods) = 0
    /\ accruals' = << MonthRecord(config, DateLocal(2025, 0, 1)) >>
    /\ pc' = "done"
    /\ UNCHANGED <<ui, callers, tz, config, results, summary, curr>>

\* calculateMonthlyAccruals: if (periods.length === 0) return []
WalkEmpty ==
    /\ pc = "summarized"
    /\ Len(config.periods) = 0
    /\ accruals' = <<>>
    /\ pc' = "done"
    /\ UNCHANGED <<ui, callers, tz, config, results, summary, curr>>

\* calculateMonthlyAccruals: minDate, accruals = [], curr = first of minDate's month
WalkBegin ==
    /\ pc = "summarized"
    /\ Len(config.periods) # 0
    /\ curr' = WalkStart(config)
    /\ accruals' = <<>>
    /\ pc' = "walking"
    /\ UNCHANGED <<ui, callers, tz, config, results, summary>>

\* while (curr <= endLimit) { ...; accruals.push(...); curr.setMonth(curr.getMonth() + 1) }
WalkStep ==
    /\ pc = "walking"
    /\ curr <= DateParse(config.endDate)
    /\ accruals' = Append(accruals, MonthRecord(config, curr))
    /\ curr' = setMonth(curr, getMonth(curr) + 1)
    /\ UNCHANGED <<ui, callers, tz, config, pc, results, summary>>

\* the loop condition fails: return accruals
WalkReturn ==
    /\ pc = "walking"
    /\ ~(curr <= DateParse(config.endDate))
    /\ pc' = "done"
    /\ UNCHANGED <<ui, callers, tz, config, results, summary, curr, accruals>>

Next ==
    \/ Evaluate
    \/ Summarize
    \/ WalkEmpty
    \/ WalkBegin
    \/ WalkStep
    \/ WalkReturn

Spec == Init /\ [][Next]_vars

----------------------------------------------------------------------------
(* The application's initial state and the display rounding *)

\* useState initial values of App, with DEFAULT_CONFIG.
DefaultConfig ==
    [ periods         |-> << [id |-> 1, month |-> 2, year |-> 2025, amount |-> 100000,
                              pctPart1 |-> 80, typePart1 |-> "Personne Morale",
                              typePart2 |-> "Personne Physique"] >>,
      annualRate      |-> 5,
      tvaRate         |-> 10,
      rasMoraleRate   |-> 30,
      rasPhysiqueRate |-> 15,
      endDate         |-> [y |-> 2025, m |-> 5, d |-> 31],
      splitMode       |-> "Global",
      calculationBase |-> "Mensuel" ]

\* formatMAD: a non-negative amount shown with two decimals, as a count of cents.
formatMAD(num) == (200 * num.n + num.d) \div (2 * num.d)

----------------------------------------------------------------------------
(* Calendar reading of the dates of a Configuration *)

\* Day number of the end date as written, and of the first day of an injection's month.
EndDay == DaysFromCivil(config.endDate.y, config.endDate.m, config.endDate.d)
InjectionDay(p) == DaysFromCivil(p.year, p.month, 1)

\* Calendar months counted from year 0.
MonthIndex(year, month) == year * 12 + (month - 1)

Evaluated == pc = "evaluated"
NPeriods == Len(config.periods)

----------------------------------------------------------------------------
(* Properties of calculateCCAResults *)

\* C1: calculateCCAResults returns exactly one Period Result per Injection, in
\* input order: the i-th result carries the id, the month/year label, the total
\* amount, the part-1 percentage and both classifications of the i-th Injection.
OneResultPerInjectionInOrder ==
    Evaluated =>
        /\ Len(results) = NPeriods
        /\ \A i \in 1..NPeriods :
              /\ results[i].id = config.periods[i].id
              /\ results[i].periodLabel = <<config.periods[i].month, config.periods[i].year>>
              /\ results[i].amountTotal = Num(config.periods[i].amount)
              /\ results[i].pctPart1 = config.periods[i].pctPart1
              /\ results[i].typePart1 = config.periods[i].typePart1
              /\ results[i].typePart2 = config.periods[i].typePart2

\* Two injections that differ in month, amount and split have been evaluated.
TwoDistinctInjectionsEvaluated ==
    /\ Evaluated
    /\ Len(results) = 2
    /\ config.periods[1].year # config.periods[2].year
    /\ config.periods[1].amount # config.periods[2].amount
    /\ config.periods[1].typePart1 # config.periods[2].typePart1

\* C2: under Monthly basis, for every Injection whose injection date (first day
\* of its month) is not after the end date, durationValue is the inclusive count
\* of calendar months from the injection month to the end-date month,
\* (endYear-startYear)*12 + (endMonth-startMonth) + 1, hence at least 1.
MonthlyDurationIsInclusiveMonthCount ==
    (Evaluated /\ config.calculationBase = "Mensuel") =>
        \A i \in 1..NPeriods :
            InjectionDay(config.periods[i]) <= EndDay =>
                /\ results[i].durationValue =
                      MonthIndex(config.endDate.y, config.endDate.m)
                      - MonthIndex(config.periods[i].year, config.periods[i].month) + 1
                /\ results[i].durationValue >= 1

\* C3: for both accrual bases the reported durationValue is never negative, and
\* it is 0 whenever the end date is strictly before the injection date (the first
\* day of the injection month).
DurationNeverNegative ==
    Evaluated =>
        \A i \in 1..NPeriods :
            /\ results[i].durationValue >= 0
            /\ EndDay < InjectionDay(config.periods[i]) => results[i].durationValue = 0

\* An injection dated after the end date has been evaluated next to one dated before it.
InjectionAfterEndEvaluated ==
    /\ Evaluated
    /\ \E i, j \in 1..NPeriods :
          /\ EndDay < InjectionDay(config.periods[i])
          /\ results[i].durationValue = 0
          /\ results[j].durationValue > 0

\* C4: under Daily basis durationValue is the elapsed time from the injection
\* date to the end date in whole days (rounded up), negative differences being
\* clamped to 0; when the end date equals the injection date it is 0 days.
DailyDurationIsElapsedDays ==
    (Evaluated /\ config.calculationBase = "Journalier") =>
        \A i \in 1..NPeriods :
            LET elapsed == EndDay - InjectionDay(config.periods[i])
            IN  results[i].durationValue = IF elapsed < 0 THEN 0 ELSE elapsed

\* C5: in every Period Result pctPart1 + pctPart2 = 100, whatever the part-1
\* percentage given.
PercentagesSumTo100 ==
    Evaluated =>
        \A i \in 1..Len(results) : results[i].pctPart1 + results[i].pctPart2 = 100

\* A result whose part-1 percentage lies outside 0..100 has been produced.
OutOfRangePercentageEvaluated ==
    /\ Evaluated
    /\ \E i \in 1..Len(results) : results[i].pctPart1 > 100

\* C6: in every Period Result, independently for part 1 and part 2,
\* interestTTC = interestHT + tva and net = interestTTC - ras, so that
\* net = (interest + VAT) - withholding of that same part.
NetIsInterestPlusVatMinusWithholding ==
    Evaluated =>
        \A i \in 1..Len(results) :
            LET r == results[i]
            IN  /\ r.interestTTC1 = RAdd(r.interestHT1, r.tva1)
                /\ r.interestTTC2 = RAdd(r.interestHT2, r.tva2)
                /\ RAdd(r.net1, r.ras1) = r.interestTTC1
                /\ RAdd(r.net2, r.ras2) = r.interestTTC2
                /\ r.net1 = RSub(RAdd(r.interestHT1, r.tva1), r.ras1)
                /\ r.net2 = RSub(RAdd(r.interestHT2, r.tva2), r.ras2)

\* A result whose two parts have different, non-zero withholdings and nets.
TwoPartsWithWithholdingEvaluated ==
    /\ Evaluated
    /\ \E i \in 1..Len(results) :
          /\ results[i].ras1.n > 0
          /\ results[i].ras2.n > 0
          /\ results[i].ras1 # results[i].ras2
          /\ results[i].net1 # results[i].net2

\* C7: for each part the pre-tax interest is simple interest on that part's
\* amount, part_amount * (annualRate/100) * duration / 12 under Monthly basis and
\* / 360 under Daily basis, and the part's VAT is that interest * vatRate/100.
SimpleInterestAndVat ==
    Evaluated =>
        \A i \in 1..Len(results) :
            LET r    == results[i]
                year == IF config.calculationBase = "Mensuel" THEN 12 ELSE 360
                due(montant) ==
                    RMul(RMul(montant, Rat(config.annualRate, 100)),
                         Rat(r.durationValue, year))
            IN  /\ r.interestHT1 = due(r.montantPart1)
                /\ r.interestHT2 = due(r.montantPart2)
                /\ RMul(r.tva1, Num(100)) = RMul(r.interestHT1, Num(config.tvaRate))
                /\ RMul(r.tva2, Num(100)) = RMul(r.interestHT2, Num(config.tvaRate))

\* Interest and VAT have been computed on a Daily basis over a positive duration.
DailyInterestEvaluated ==
    /\ Evaluated
    /\ config.calculationBase = "Journalier"
    /\ \E i \in 1..Len(results) :
          /\ results[i].durationValue > 0
          /\ results[i].interestHT1.n > 0
          /\ results[i].tva1.n > 0

\* C8: for each part the withholding rate used is determined solely by that
\* part's classification (the Moral rate for a Moral-person part, the Natural
\* rate for a Natural-person part) and withholding = pre-tax interest * rate/100.
WithholdingByClassification ==
    Evaluated =>
        \A i \in 1..Len(results) :
            LET r == results[i]
                rate(type) == IF type = "Personne Morale"
                              THEN config.rasMoraleRate ELSE config.rasPhysiqueRate
            IN  /\ r.rasRate1 = Num(rate(r.typePart1))
                /\ r.rasRate2 = Num(rate(r.typePart2))
                /\ RMul(r.ras1, Num(100)) = RMul(r.interestHT1, Num(rate(r.typePart1)))
                /\ RMul(r.ras2, Num(100)) = RMul(r.interestHT2, Num(rate(r.typePart2)))

\* A result with a Moral-person part 1 and a Natural-person part 2, both bearing interest.
MixedClassificationsEvaluated ==
    /\ Evaluated
    /\ config.rasMoraleRate # config.rasPhysiqueRate
    /\ \E i \in 1..Len(results) :
          /\ results[i].typePart1 = "Personne Morale"
          /\ results[i].typePart2 = "Personne Physique"
          /\ results[i].interestHT1.n > 0
          /\ results[i].interestHT2.n > 0

\* C9: the worked scenario (the application's default state): one injection of
\* 100000 in 2025-02, 80% Moral / 20% Natural, 5% a year, VAT 10%, withholding
\* 30% / 15%, Monthly basis, end date 2025-05-31, gives duration 4; part 1
\* interest 1333.33, VAT 133.33, withholding 400.00, net 1066.67; part 2
\* interest 333.33, withholding 50.00, net 316.67, to the cent.
WorkedScenario ==
    (Evaluated /\ config = DefaultConfig) =>
        /\ Len(results) = 1
        /\ results[1].durationValue = 4
        /\ formatMAD(results[1].interestHT1) = 133333
        /\ formatMAD(results[1].tva1) = 13333
        /\ formatMAD(results[1].ras1) = 40000
        /\ formatMAD(results[1].net1) = 106667
        /\ formatMAD(results[1].interestHT2) = 33333
        /\ formatMAD(results[1].ras2) = 5000
        /\ formatMAD(results[1].net2) = 31667

\* The default Configuration has been evaluated, in a host east of UTC.
DefaultConfigEvaluated ==
    /\ Evaluated
    /\ config = DefaultConfig
    /\ tz > 0

----------------------------------------------------------------------------
(* Properties of calculateMonthlyAccruals *)

\* The calendar months from the earliest injection month through the month of
\* the end date, as <<month, year>> labels; empty when the end date lies in an
\* earlier month.
EarliestMonth ==
    CHOOSE k \in { MonthIndex(config.periods[i].year, config.periods[i].month) : i \in 1..NPeriods } :
        \A j \in 1..NPeriods : k <= MonthIndex(config.periods[j].year, config.periods[j].month)

ExpectedMonths ==
    LET first == EarliestMonth
        last  == MonthIndex(config.endDate.y, config.endDate.m)
        n     == IF last < first THEN 0 ELSE last - first + 1
    IN  [k \in 1..n |-> << ((first + k - 1) % 12) + 1, (first + k - 1) \div 12 >>]

\* C10: with at least one Injection the walk of calculateMonthlyAccruals
\* terminates and emits exactly one record per calendar month, in consecutive
\* chronological order (December followed by January of the next year), the
\* first record being the month of the earliest Injection and the last the month
\* that contains the end date.
WalkCoversEarliestToEndMonth ==
    (pc = "done" /\ NPeriods >= 1) =>
        /\ Len(accruals) = Len(ExpectedMonths)
        /\ \A k \in 1..Len(accruals) : accruals[k].label = ExpectedMonths[k]

\* Every iteration of the walk moves the cursor forward by at least 28 days, so
\* the loop 'while (curr <= endLimit)' is left after finitely many iterations.
WalkCursorAdvances ==
    [][(pc = "walking" /\ pc' = "walking") => curr' >= curr + 28 * 24]_vars

----------------------------------------------------------------------------
(* Properties of the engine on particular Configurations *)

\* C11: with zero Injections calculateMonthlyAccruals returns an empty sequence
\* and summarizeResults, on the empty Period Result sequence, returns a summary
\* whose every field is 0.
NoInjectionsGiveNothing ==
    (pc = "done" /\ NPeriods = 0) =>
        /\ results = <<>>
        /\ accruals = <<>>
        /\ \A f \in DOMAIN summary : summary[f] = Num(0)
        /\ DOMAIN summary =
              { "totalCapital", "totalInterestHT", "totalInterestHT1", "totalInterestHT2",
                "totalInterestTTC", "totalTVA", "totalRAS", "totalRAS1", "totalRAS2",
                "netTotal", "totalRepayment" }

\* The three functions have run on a Configuration without Injections.
NoInjectionsEvaluated ==
    /\ pc = "done"
    /\ NPeriods = 0
    /\ config.endDate = [y |-> 2025, m |-> 5, d |-> 31]

----------------------------------------------------------------------------
(* Properties of the Monthly Accrual Records *)

Walked == pc = "done" /\ NPeriods >= 1

\* Sum of the amounts of the injections dated in or before calendar month k.
RECURSIVE AmountsUpTo(_, _)
AmountsUpTo(ps, k) ==
    IF ps = <<>> THEN 0
    ELSE (IF MonthIndex(Head(ps).year, Head(ps).month) <= k THEN Head(ps).amount ELSE 0)
         + AmountsUpTo(Tail(ps), k)

\* C12: in every Monthly Accrual Record for month M, activeCapital is the sum of
\* the amounts of exactly those Injections whose injection date is on or before
\* the first day of M (one dated in M itself included, one dated after M not).
ActiveCapitalIsSumOfStartedInjections ==
    Walked =>
        \A k \in 1..Len(accruals) :
            accruals[k].activeCapital =
                Num(AmountsUpTo(config.periods, MonthIndex(accruals[k].year, accruals[k].month)))

\* A record of the month of one injection, in which a later injection is not yet counted.
RecordWithStartedAndPendingInjection ==
    /\ Walked
    /\ \E k \in 1..Len(accruals), i, j \in 1..NPeriods :
          /\ config.periods[i].year = accruals[k].year
          /\ config.periods[i].month = accruals[k].month
          /\ MonthIndex(config.periods[j].year, config.periods[j].month)
                > MonthIndex(accruals[k].year, accruals[k].month)
          /\ accruals[k].activeCapital = Num(config.periods[i].amount)

\* Less-or-equal on exact numbers.
RLeq(a, b) == RSub(b, a).n >= 0

\* C13: activeCapital is monotonically non-decreasing along the Monthly Accrual
\* sequence: each record's activeCapital is at least that of the preceding record.
ActiveCapitalNonDecreasing ==
    Walked =>
        \A k \in 2..Len(accruals) :
            RLeq(accruals[k - 1].activeCapital, accruals[k].activeCapital)

\* A walk along which the active capital has risen when a second injection started.
ActiveCapitalHasRisen ==
    /\ Walked
    /\ \E k \in 2..Len(accruals) :
          /\ accruals[k - 1].activeCapital.n > 0
          /\ accruals[k].activeCapital # accruals[k - 1].activeCapital

----------------------------------------------------------------------------
(* The monthly ledger against the Financial Summary *)

\* Sum of one field over the Monthly Accrual Records.
RECURSIVE SumOver(_, _)
SumOver(recs, field) ==
    IF recs = <<>> THEN Num(0) ELSE RAdd(Head(recs)[field], SumOver(Tail(recs), field))

\* C14: under Monthly basis the ledger and the Period Evaluator agree in
\* aggregate: the sums over all Monthly Accrual Records of interestHT, tva, ras
\* and net equal the summary's totalInterestHT, totalTVA, totalRAS and netTotal.
MonthlyLedgerAgreesWithSummary ==
    (Walked /\ config.calculationBase = "Mensuel") =>
        /\ SumOver(accruals, "interestHT") = summary.totalInterestHT
        /\ SumOver(accruals, "tva") = summary.totalTVA
        /\ SumOver(accruals, "ras") = summary.totalRAS
        /\ SumOver(accruals, "net") = summary.netTotal

\* A Monthly-basis ledger of several months, fed by two injections of different
\* months, one of them dated after the end date.
MonthlyLedgerOfTwoInjections ==
    /\ Walked
    /\ config.calculationBase = "Mensuel"
    /\ Len(accruals) >= 2
    /\ summary.totalRAS.n > 0
    /\ \E i, j \in 1..NPeriods :
          /\ results[i].durationValue > 1
          /\ results[j].durationValue = 0

\* C15: under Daily basis the sum of interestHT over all Monthly Accrual Records
\* equals the summary's totalInterestHT (the 'TOTAL CUMULE' footer under the
\* monthly table is the total of its rows).
DailyLedgerAgreesWithSummary ==
    (Walked /\ config.calculationBase = "Journalier") =>
        SumOver(accruals, "interestHT") = summary.totalInterestHT

----------------------------------------------------------------------------
(* Properties of summarizeResults *)

Summarized == pc = "summarized"

\* C16: summarizeResults returns, for every field, the sum over all Period
\* Results of the corresponding values: totalCapital = sum of amountTotal;
\* totalInterestHT = totalInterestHT1 + totalInterestHT2; totalRAS = totalRAS1 +
\* totalRAS2; totalInterestTTC = totalInterestHT + totalTVA; netTotal =
\* totalInterestTTC - totalRAS; totalRepayment = totalCapital + totalInterestTTC.
SummaryIsFieldwiseSum ==
    Summarized =>
        /\ summary.totalCapital = SumOver(results, "amountTotal")
        /\ summary.totalInterestHT1 = SumOver(results, "interestHT1")
        /\ summary.totalInterestHT2 = SumOver(results, "interestHT2")
        /\ summary.totalTVA = RAdd(SumOver(results, "tva1"), SumOver(results, "tva2"))
        /\ summary.totalRAS1 = SumOver(results, "ras1")
        /\ summary.totalRAS2 = SumOver(results, "ras2")
        /\ summary.netTotal = RAdd(SumOver(results, "net1"), SumOver(results, "net2"))
        /\ summary.totalInterestHT = RAdd(summary.totalInterestHT1, summary.totalInterestHT2)
        /\ summary.totalRAS = RAdd(summary.totalRAS1, summary.totalRAS2)
        /\ summary.totalInterestTTC = RAdd(summary.totalInterestHT, summary.totalTVA)
        /\ summary.netTotal = RSub(summary.totalInterestTTC, summary.totalRAS)
        /\ summary.totalRepayment = RAdd(summary.totalCapital, summary.totalInterestTTC)

\* Two results with interest, VAT and withholding on both parts have been folded.
TwoResultsSummarized ==
    /\ Summarized
    /\ Len(results) = 2
    /\ \A i \in 1..2 : results[i].ras1.n > 0 /\ results[i].ras2.n > 0
    /\ results[1].amountTotal # results[2].amountTotal

\* The sequence rs rearranged by the permutation perm of its indices.
Permuted(rs, perm) == [i \in 1..Len(rs) |-> rs[perm[i]]]

\* C17: aggregation is order-independent: for every sequence of Period Results
\* and every permutation of it, summarizeResults returns the same Financial
\* Summary (in exact arithmetic).
SummaryIsOrderIndependent ==
    Summarized =>
        \A perm \in Permutations(1..Len(results)) :
            summarizeResults(Permuted(results, perm)) = summary

\* Two results that differ in amount, interest and withholding have been folded.
TwoDifferentResultsSummarized ==
    /\ Summarized
    /\ Len(results) = 2
    /\ results[1].amountTotal # results[2].amountTotal
    /\ results[1].interestHT1 # results[2].interestHT1
    /\ results[1].ras2 # results[2].ras2
    /\ results[1].durationValue # results[2].durationValue

----------------------------------------------------------------------------
(* The order of the Injections *)

\* The same evaluation on the Configurations with the default rates and the
\* default end date, which lies after every injection month: the ones on which
\* the order of the Injections is examined.
OrderInit ==
    /\ tz \in TimeZones
    /\ callers = <<>>
    /\ ui = <<>>
    /\ \E ps \in PeriodLists, e \in EndDates, base \in CalculationBase :
          /\ e = DefaultConfig.endDate
          /\ config = MakeConfig(ps, [annualRate |-> DefaultConfig.annualRate,
                                      tvaRate |-> DefaultConfig.tvaRate,
                                      rasMoraleRate |-> DefaultConfig.rasMoraleRate,
                                      rasPhysiqueRate |-> DefaultConfig.rasPhysiqueRate],
                                 e, base)
    /\ pc = "start"
    /\ results = <<>>
    /\ summary = ZeroSummary
    /\ curr = 0
    /\ accruals = <<>>

OrderSpec == OrderInit /\ [][Next]_vars

\* The Configuration with its Injections rearranged by perm.
WithPeriodsPermuted(cfg, perm) == [cfg EXCEPT !.periods = Permuted(cfg.periods, perm)]

\* C18: the order of the Injections is not significant to the engine: permuting
\* them leaves the Monthly Accrual sequence and the Financial Summary unchanged
\* and only permutes the Period Results correspondingly.
InjectionOrderNotSignificant ==
    pc = "done" =>
        \A perm \in Permutations(1..NPeriods) :
            LET other == WithPeriodsPermuted(config, perm)
                otherResults == calculateCCAResults(other)
            IN  /\ otherResults = Permuted(results, perm)
                /\ summarizeResults(otherResults) = summary
                /\ calculateMonthlyAccruals(other) = accruals

\* The engine has run on two injections, the later one first, that differ in
\* month, amount and split.
LaterInjectionFirstEvaluated ==
    /\ pc = "done"
    /\ NPeriods = 2
    /\ InjectionDay(config.periods[2]) < InjectionDay(config.periods[1])
    /\ config.periods[1].amount # config.periods[2].amount
    /\ Len(accruals) > 12
    /\ results[1].durationValue > 0

----------------------------------------------------------------------------
(* Several callers sharing one Configuration *)

Callers == {"A", "B"}

\* A caller that holds no output and is about to call the engine.
Idle ==
    [pc |-> "start", results |-> <<>>, summary |-> ZeroSummary, curr |-> 0, accruals |-> <<>>]

\* The Configurations the callers share: the default rates and basis, the end date in
\* March 2024, in the second month of the earliest injection.
CallerInit ==
    /\ tz \in TimeZones
    /\ \E ps \in PeriodLists, e \in EndDates, base \in CalculationBase :
          /\ e.y = 2024
          /\ base = DefaultConfig.calculationBase
          /\ config = MakeConfig(ps, [annualRate |-> DefaultConfig.annualRate, tvaRate |-> DefaultConfig.tvaRate,
                                      rasMoraleRate |-> DefaultConfig.rasMoraleRate,
                                      rasPhysiqueRate |-> DefaultConfig.rasPhysiqueRate], e, base)
    /\ callers = [c \in Callers |-> Idle]
    /\ ui = <<>>
    /\ pc = "start"
    /\ results = <<>>
    /\ summary = ZeroSummary
    /\ curr = 0
    /\ accruals = <<>>

\* The periods ordered by injection date.
SortedByDate(ps) ==
    Permuted(ps, CHOOSE perm \in Permutations(1..Len(ps)) :
                    \A i, j \in 1..Len(ps) :
                        i < j => InjectionDate(ps[perm[i]]) <= InjectionDate(ps[perm[j]]))

\* calculateCCAResults(config), called by c
CallEvaluate(c) ==
    /\ callers[c].pc = "start"
    /\ callers' = [callers EXCEPT ![c].results = calculateCCAResults(config),
                                  ![c].pc = "evaluated"]
    /\ UNCHANGED <<ui, tz, config, pc, results, summary, curr, accruals>>

\* summarizeResults(results), called by c on the results it holds
CallSummarize(c) ==
    /\ callers[c].pc = "evaluated"
    /\ callers' = [callers EXCEPT ![c].summary = summarizeResults(callers[c].results),
                                  ![c].pc = "summarized"]
    /\ UNCHANGED <<ui, tz, config, pc, results, summary, curr, accruals>>

\* calculateMonthlyAccruals(config), called by c: if (periods.length === 0) return []
CallWalkEmpty(c) ==
    /\ callers[c].pc = "summarized"
    /\ Len(config.periods) = 0
    /\ callers' = [callers EXCEPT ![c].accruals = <<>>, ![c].pc = "done"]
    /\ UNCHANGED <<ui, tz, config, pc, results, summary, curr, accruals>>

\* Faulty variant: the earliest injection found by sorting the caller's array in place.
CallWalkBegin_SortsInput(c) ==
    /\ callers[c].pc = "summarized"
    /\ Len(config.periods) # 0
    /\ config' = [config EXCEPT !.periods = SortedByDate(config.periods)]
    /\ callers' = [callers EXCEPT ![c].curr = WalkStart(config),
                                  ![c].accruals = <<>>,
                                  ![c].pc = "walking"]
    /\ UNCHANGED <<ui, tz, pc, results, summary, curr, accruals>>

\* calculateMonthlyAccruals(config), called by c: minDate, accruals = [], curr
CallWalkBegin(c) ==
    /\ callers[c].pc = "summarized"
    /\ Len(config.periods) # 0
    /\ callers' = [callers EXCEPT ![c].curr = WalkStart(config),
                                  ![c].accruals = <<>>,
                                  ![c].pc = "walking"]
    /\ UNCHANGED <<ui, tz, config, pc, results, summary, curr, accruals>>

\* one iteration of c's while loop, on c's own curr and accruals
CallWalkStep(c) ==
    /\ callers[c].pc = "walking"
    /\ callers[c].curr <= DateParse(config.endDate)
    /\ callers' = [callers EXCEPT
                      ![c].accruals = Append(callers[c].accruals, MonthRecord(config, callers[c].curr)),
                      ![c].curr = setMonth(callers[c].curr, getMonth(callers[c].curr) + 1)]
    /\ UNCHANGED <<ui, tz, config, pc, results, summary, curr, accruals>>

\* c's loop condition fails: return accruals
CallWalkReturn(c) ==
    /\ callers[c].pc = "walking"
    /\ ~(callers[c].curr <= DateParse(config.endDate))
    /\ callers' = [callers EXCEPT ![c].pc = "done"]
    /\ UNCHANGED <<ui, tz, config, pc, results, summary, curr, accruals>>

\* c drops the outputs it holds and calls the engine again
CallAgain(c) ==
    /\ callers[c].pc = "done"
    /\ callers' = [callers EXCEPT ![c] = Idle]
    /\ UNCHANGED <<ui, tz, config, pc, results, summary, curr, accruals>>

CallerNext ==
    \E c \in Callers :
        \/ CallEvaluate(c)
        \/ CallSummarize(c)
        \/ CallWalkEmpty(c)
        \/ CallWalkBegin(c)
        \/ CallWalkStep(c)
        \/ CallWalkReturn(c)
        \/ CallAgain(c)

CallerSpec == CallerInit /\ [][CallerNext]_vars

\* C19: the three functions keep no state between invocations and never modify
\* their input: after any number of calls, sequential or interleaved between
\* callers sharing one Configuration, the Configuration is unchanged and every
\* call returns the output determined by the Configuration alone, so equal
\* outputs for equal Configurations.
EngineIsStatelessAndPure ==
    [][ LET expectedResults == calculateCCAResults(config)
            expectedSummary == summarizeResults(expectedResults)
            expectedAccruals == calculateMonthlyAccruals(config)
        IN  /\ config' = config
            /\ \A c \in Callers :
                  /\ callers'[c].pc \in {"evaluated", "summarized", "walking", "done"}
                        => callers'[c].results = expectedResults
                  /\ callers'[c].pc \in {"summarized", "walking", "done"}
                        => callers'[c].summary = expectedSummary
                  /\ callers'[c].pc = "done"
                        => callers'[c].accruals = expectedAccruals
            /\ \A c, d \in Callers :
                  (callers'[c].pc = "done" /\ callers'[d].pc = "done")
                        => /\ callers'[c].results = callers'[d].results
                           /\ callers'[c].summary = callers'[d].summary
                           /\ callers'[c].accruals = callers'[d].accruals ]_vars

\* Both callers hold the outputs of a walk of two months over two injections
\* given later one first, a walk they ran interleaved.
BothCallersDone ==
    /\ callers # <<>>
    /\ \A c \in Callers : callers[c].pc = "done" /\ Len(callers[c].accruals) = 2
    /\ NPeriods = 2
    /\ InjectionDay(config.periods[2]) < InjectionDay(config.periods[1])

----------------------------------------------------------------------------
(* No validation, no error outcome *)

\* C20: the engine has no error outcome: for every numerically well-formed
\* Configuration, part-1 percentages outside 0-100 and negative rates included,
\* the three functions return a normal result in which the formulas are applied
\* as-is (pctPart1 = 150 reports pctPart2 = -50 and a part-2 amount of -0.5 *
\* total): one result per injection, amounts, interest, VAT and withholding with
\* the sign the arithmetic gives them, summary and monthly records likewise;
\* nothing is rejected or clamped except the duration.
NothingRejectedOrClamped ==
    /\ pc \in {"evaluated", "summarized", "walking", "done"} =>
          /\ Len(results) = NPeriods
          /\ \A i \in 1..NPeriods :
                LET p     == config.periods[i]
                    r     == results[i]
                    total == Num(p.amount)
                    year  == IF config.calculationBase = "Mensuel" THEN 12 ELSE 360
                    asIs(pct, type) ==
                        LET montant  == RMul(total, Rat(pct, 100))
                            interest == RMul(montant, Rat(config.annualRate * r.durationValue, 100 * year))
                            rate     == IF type = "Personne Morale" THEN config.rasMoraleRate
                                                                    ELSE config.rasPhysiqueRate
                        IN  [montant |-> montant, interest |-> interest,
                             tva |-> RMul(interest, Rat(config.tvaRate, 100)),
                             ras |-> RMul(interest, Rat(rate, 100))]
                    part1 == asIs(p.pctPart1, p.typePart1)
                    part2 == asIs(100 - p.pctPart1, p.typePart2)
                IN  /\ r.durationValue >= 0
                    /\ r.pctPart1 = p.pctPart1
                    /\ r.pctPart2 = 100 - p.pctPart1
                    /\ r.montantPart1 = part1.montant
                    /\ r.montantPart2 = part2.montant
                    /\ r.interestHT1 = part1.interest
                    /\ r.interestHT2 = part2.interest
                    /\ r.tva1 = part1.tva
                    /\ r.tva2 = part2.tva
                    /\ r.ras1 = part1.ras
                    /\ r.ras2 = part2.ras
    /\ pc \in {"summarized", "walking", "done"} =>
          /\ summary.totalCapital = SumOver(results, "amountTotal")
          /\ summary.totalInterestHT2 = SumOver(results, "interestHT2")
          /\ summary.netTotal = RAdd(SumOver(results, "net1"), SumOver(results, "net2"))
    /\ pc = "done" =>
          \A k \in 1..Len(accruals) :
              LET a == accruals[k]
              IN  /\ a.tva = RMul(a.interestHT, Rat(config.tvaRate, 100))
                  /\ a.net = RSub(RAdd(a.interestHT, a.tva), a.ras)
                  /\ config.calculationBase = "Mensuel" =>
                        a.interestHT = RMul(a.activeCapital, Rat(config.annualRate, 1200))

\* A run has ended normally on a negative annual rate and an injection with a
\* part-1 percentage of 150: its part-2 amount is minus half the total, its
\* part-2 interest positive, and the months accrue negative interest.
NegativeRateAndShareWalked ==
    /\ pc = "done"
    /\ config.annualRate < 0
    /\ \E i \in 1..Len(results) :
          /\ results[i].pctPart1 = 150
          /\ results[i].pctPart2 = -50
          /\ RMul(results[i].montantPart2, Num(2)) = RNeg(results[i].amountTotal)
          /\ results[i].interestHT2.n > 0
    /\ \E k \in 1..Len(accruals) : accruals[k].interestHT.n < 0

----------------------------------------------------------------------------
(* The two part amounts *)

\* C21: in every Period Result the two part amounts add up to the injection
\* total: montantPart1 = amountTotal * pctPart1/100, montantPart2 = amountTotal *
\* (1 - pctPart1/100), and montantPart1 + montantPart2 = amountTotal exactly.
PartAmountsAddUp ==
    Evaluated =>
        \A i \in 1..Len(results) :
            LET r == results[i]
            IN  /\ RMul(r.montantPart1, Num(100)) = RMul(r.amountTotal, Num(r.pctPart1))
                /\ RMul(r.montantPart2, Num(100)) = RMul(r.amountTotal, Num(100 - r.pctPart1))
                /\ RAdd(r.montantPart1, r.montantPart2) = r.amountTotal

\* An injection split into two unequal non-zero parts has been evaluated.
UnequalPartsEvaluated ==
    /\ Evaluated
    /\ \E i \in 1..Len(results) :
          /\ results[i].montantPart1.n > 0
          /\ results[i].montantPart2.n > 0
          /\ results[i].montantPart1 # results[i].montantPart2

----------------------------------------------------------------------------
(* The content of a Monthly Accrual Record *)

\* The calendar length of month m (1..12) of year y.
DaysInMonth(y, m) ==
    IF m = 2
    THEN (IF (y % 4 = 0 /\ y % 100 # 0) \/ y % 400 = 0 THEN 29 ELSE 28)
    ELSE (IF m \in {4, 6, 9, 11} THEN 30 ELSE 31)

\* One month's interest on a part amount, whatever the injection's duration.
OneMonthOf(montant, y, m) ==
    IF config.calculationBase = "Mensuel"
    THEN RMul(montant, Rat(config.annualRate, 100 * 12))
    ELSE RMul(RMul(montant, Rat(config.annualRate, 100)), Rat(DaysInMonth(y, m), 360))

\* The withholding rate (percent) of a classification.
RasPercent(type) ==
    IF type = "Personne Morale" THEN config.rasMoraleRate ELSE config.rasPhysiqueRate

\* Sums over the injections of ps active in month m of year y (dated in or
\* before it) of both parts' interest for that month and of its withholding.
RECURSIVE DueInMonth(_, _, _)
DueInMonth(ps, y, m) ==
    IF ps = <<>> THEN [interest |-> Num(0), ras |-> Num(0)]
    ELSE LET p    == Head(ps)
             rest == DueInMonth(Tail(ps), y, m)
             i1   == OneMonthOf(RMul(Num(p.amount), Rat(p.pctPart1, 100)), y, m)
             i2   == OneMonthOf(RMul(Num(p.amount), Rat(100 - p.pctPart1, 100)), y, m)
         IN  IF MonthIndex(p.year, p.month) <= MonthIndex(y, m)
             THEN [interest |-> RAdd(rest.interest, RAdd(i1, i2)),
                   ras |-> RAdd(rest.ras,
                                RAdd(RMul(i1, Rat(RasPercent(p.typePart1), 100)),
                                     RMul(i2, Rat(RasPercent(p.typePart2), 100))))]
             ELSE rest

\* C22: in every Monthly Accrual Record for month M, interestHT is the sum over
\* the Injections active in M of both parts' interest for that single month,
\* independent of the Injection's duration: part_amount * annualRate/100 / 12
\* under Monthly basis, part_amount * annualRate/100 * daysInMonth(M) / 360 under
\* Daily basis, daysInMonth(M) being the calendar length of M (28, 29, 30 or 31).
MonthInterestIsOneMonthOfActiveParts ==
    Walked =>
        \A k \in 1..Len(accruals) :
            accruals[k].interestHT =
                DueInMonth(config.periods, accruals[k].year, accruals[k].month).interest

\* A Daily-basis walk holding the record of a leap-year February and the record
\* of a 31-day month, both with interest, the latter over two active injections.
LeapFebruaryAndLongMonthAccrued ==
    /\ Walked
    /\ config.calculationBase = "Journalier"
    /\ NPeriods = 2
    /\ \E k \in 1..Len(accruals) :
          /\ accruals[k].month = 2
          /\ accruals[k].year = 2024
          /\ accruals[k].interestHT.n # 0
    /\ \E k \in 1..Len(accruals) :
          /\ accruals[k].month = 3
          /\ accruals[k].interestHT.n # 0
          /\ \A i \in 1..NPeriods :
                MonthIndex(config.periods[i].year, config.periods[i].month)
                    <= MonthIndex(accruals[k].year, accruals[k].month)

\* C23: in every Monthly Accrual Record tva = interestHT * vatRate/100, computed
\* once on the combined interest; ras = the sum, over active Injections and over
\* both parts, of that part's interest for the month times the withholding rate of
\* the part's classification; and net = (interestHT + tva) - ras.
MonthVatWithholdingAndNet ==
    Walked =>
        \A k \in 1..Len(accruals) :
            LET a == accruals[k]
            IN  /\ RMul(a.tva, Num(100)) = RMul(a.interestHT, Num(config.tvaRate))
                /\ a.ras = DueInMonth(config.periods, a.year, a.month).ras
                /\ a.net = RSub(RAdd(a.interestHT, a.tva), a.ras)

\* A record over two active injections whose parts carry different
\* classifications, with VAT and withholding due.
MixedWithholdingMonthAccrued ==
    /\ Walked
    /\ NPeriods = 2
    /\ config.rasMoraleRate # config.rasPhysiqueRate
    /\ \E i \in 1..NPeriods : config.periods[i].typePart1 # config.periods[i].typePart2
    /\ \E k \in 1..Len(accruals) :
          /\ \A i \in 1..NPeriods :
                MonthIndex(config.periods[i].year, config.periods[i].month)
                    <= MonthIndex(accruals[k].year, accruals[k].month)
          /\ accruals[k].tva.n # 0
          /\ accruals[k].ras.n # 0

----------------------------------------------------------------------------
(* The application: state, effects and handlers of App *)

MaxInjections == 3   \* addPeriod is offered while the list is shorter than this
MaxScenarios  == 1   \* scenarios saved in one session
MaxEvents     == 4   \* user events in one session

\* Values Date.now() returns to the handlers (milliseconds); two calls may see the same one.
ClockValues == {1000, 1001}

\* `imp-${idx}-${Date.now()}`: the only identifiers that are not decimal
\* numerals, written as negative numbers, distinct for distinct (idx, now).
ImportId(idx, now) == -(now * 10 + idx)

\* useState initial values, before the first effects have run.
InitialState ==
    [ periods             |-> DefaultConfig.periods,
      annualRate          |-> DefaultConfig.annualRate,
      tvaRate             |-> DefaultConfig.tvaRate,
      rasMorale           |-> DefaultConfig.rasMoraleRate,
      rasPhysique         |-> DefaultConfig.rasPhysiqueRate,
      endDate             |-> DefaultConfig.endDate,
      repaymentEndOfMonth |-> TRUE,
      splitMode           |-> "Global",
      calculationBase     |-> "Mensuel",
      globalPctPart1      |-> 80,
      globalTypePart1     |-> "Personne Morale",
      globalTypePart2     |-> "Personne Physique",
      savedScenarios      |-> <<>>,
      endDeps             |-> <<>>,   \* [repaymentEndOfMonth, endDate] of the last effect pass
      splitDeps           |-> <<>>,   \* [globalPctPart1, globalTypePart1, globalTypePart2, splitMode]
      chosen              |-> <<>>,   \* the date last chosen in the date field or loaded
      loaded              |-> <<>>,   \* the stored configuration loaded by the last event
      events              |-> 0 ]

\* const config = useMemo(() => ({ periods, annualRate, ... }), [...])
ConfigOf(u) ==
    [ periods         |-> u.periods,
      annualRate      |-> u.annualRate,
      tvaRate         |-> u.tvaRate,
      rasMoraleRate   |-> u.rasMorale,
      rasPhysiqueRate |-> u.rasPhysique,
      endDate         |-> u.endDate,
      splitMode       |-> u.splitMode,
      calculationBase |-> u.calculationBase ]

\* Dependency arrays of the two effects.
EndDeps(u) == << <<u.repaymentEndOfMonth, u.endDate>> >>
SplitDeps(u) == << <<u.globalPctPart1, u.globalTypePart1, u.globalTypePart2, u.splitMode>> >>

\* The last render showed the current state and no effect is pending.
Settled ==
    /\ ui.endDeps = EndDeps(ui)
    /\ ui.splitDeps = SplitDeps(ui)
    /\ config = ConfigOf(ui)

\* handleEndDateChange with the option on: new Date(val), the last day of its
\* local month at local midnight, then toISOString().split('T')[0].
SnapToEndOfMonth(val) ==
    LET d       == DateParse(val)
        lastDay == DateLocal(getFullYear(d), getMonth(d) + 1, 0)
    IN  toISODate(lastDay)

\* prev.map(p => ({ ...p, pctPart1: globalPctPart1, typePart1: ..., typePart2: ... }))
ApplyGlobalSplit(u, ps) ==
    [ i \in 1..Len(ps) |-> [ps[i] EXCEPT !.pctPart1 = u.globalPctPart1,
                                         !.typePart1 = u.globalTypePart1,
                                         !.typePart2 = u.globalTypePart2] ]

\* The derived values of a render are functions of the rendered config:
\* const results = useMemo(() => calculateCCAResults(config), [config])
\* const summary = useMemo(() => summarizeResults(results), [results])
\* const monthlyAccruals = useMemo(() => calculateMonthlyAccruals(config), [config])
ShownResults == calculateCCAResults(config)
ShownSummary == summarizeResults(ShownResults)
ShownMonthlyAccruals == calculateMonthlyAccruals(config)

\* The App as first rendered, its effects not yet run; the evaluation of the
\* rendered config is followed by Evaluate, Summarize and the walk, not here.
UIInit ==
    /\ tz \in TimeZones
    /\ ui = InitialState
    /\ config = ConfigOf(InitialState)
    /\ pc = "start"
    /\ results = <<>>
    /\ summary = ZeroSummary
    /\ curr = 0
    /\ accruals = <<>>
    /\ callers = <<>>

\* A render of the current state (config recomputed, and with it the values
\* derived from it) followed by the effects whose dependencies changed since
\* the last pass.
Commit ==
    /\ ~Settled
    /\ LET runSnap  == ui.endDeps # EndDeps(ui)
           runSplit == ui.splitDeps # SplitDeps(ui)
       IN  ui' = [ui EXCEPT
                    !.endDate   = IF runSnap /\ ui.repaymentEndOfMonth
                                  THEN SnapToEndOfMonth(ui.endDate) ELSE @,
                    !.periods   = IF runSplit /\ ui.splitMode = "Global"
                                  THEN ApplyGlobalSplit(ui, ui.periods) ELSE @,
                    !.endDeps   = EndDeps(ui),
                    !.splitDeps = SplitDeps(ui)]
    /\ config' = ConfigOf(ui)
    /\ UNCHANGED <<tz, pc, results, summary, curr, accruals, callers>>

\* A user event is handled once the previous one has settled.
Ready == Settled /\ ui.events < MaxEvents

\* What every handler leaves of the bookkeeping: one more event, nothing loaded.
Handled(u) == [u EXCEPT !.events = ui.events + 1, !.loaded = <<>>]

\* Dates typed into the end-date field.
DateChoices ==
    { [y |-> 2025, m |-> 6, d |-> 1],
      [y |-> 2025, m |-> 2, d |-> 15] }

\* handleEndDateChange(val), from the date field
HandleEndDateChange(val) ==
    /\ Ready
    /\ ui' = [Handled(ui) EXCEPT
                !.endDate = IF ui.repaymentEndOfMonth THEN SnapToEndOfMonth(val) ELSE val,
                !.chosen  = <<val>>]
    /\ UNCHANGED <<tz, config, pc, results, summary, curr, accruals, callers>>

\* onChange={(e) => setRepaymentEndOfMonth(e.target.checked)}
SetRepaymentEndOfMonth(checked) ==
    /\ Ready
    /\ ui' = [Handled(ui) EXCEPT !.repaymentEndOfMonth = checked]
    /\ UNCHANGED <<tz, config, pc, results, summary, curr, accruals, callers>>

\* onClick={() => setCalculationBase("Mensuel" | "Journalier")}
SetCalculationBase(base) ==
    /\ Ready
    /\ ui' = [Handled(ui) EXCEPT !.calculationBase = base]
    /\ UNCHANGED <<tz, config, pc, results, summary, curr, accruals, callers>>

\* Values the rate inputs are moved to.
RateInputs ==
    [ annualRate |-> {5, 12}, tvaRate |-> {10, 20}, rasMorale |-> {30, 10}, rasPhysique |-> {15, 20} ]

\* setAnnualRate, setTvaRate, setRasMorale, setRasPhysique from their inputs
SetRate(field, v) ==
    /\ Ready
    /\ ui' = [Handled(ui) EXCEPT ![field] = v]
    /\ UNCHANGED <<tz, config, pc, results, summary, curr, accruals, callers>>

\* onClick={() => setSplitMode("Global" | "Variable")}
SetSplitMode(mode) ==
    /\ Ready
    /\ ui' = [Handled(ui) EXCEPT !.splitMode = mode]
    /\ UNCHANGED <<tz, config, pc, results, summary, curr, accruals, callers>>

\* Values the global split controls are moved to.
GlobalSplitInputs ==
    [ globalPctPart1 |-> {80, 50}, globalTypePart1 |-> PersonType, globalTypePart2 |-> PersonType ]

\* setGlobalPctPart1 / setGlobalTypePart1 / setGlobalTypePart2: the controls
\* are rendered only while splitMode === "Global".
SetGlobalSplit(field, v) ==
    /\ Ready
    /\ ui.splitMode = "Global"
    /\ ui' = [Handled(ui) EXCEPT ![field] = v]
    /\ UNCHANGED <<tz, config, pc, results, summary, curr, accruals, callers>>

\* addPeriod(), Date.now() returning now
AddPeriod(now) ==
    /\ Ready
    /\ Len(ui.periods) < MaxInjections
    /\ LET last     == IF ui.periods # <<>> THEN ui.periods[Len(ui.periods)]
                                            ELSE [month |-> 1, year |-> 2025]
           newMonth == IF last.month = 12 THEN 1 ELSE last.month + 1
           newYear  == IF last.month = 12 THEN last.year + 1 ELSE last.year
           global   == ui.splitMode = "Global"
       IN  ui' = [Handled(ui) EXCEPT !.periods = Append(ui.periods,
                    [ id        |-> now,
                      month     |-> newMonth,
                      year      |-> newYear,
                      amount    |-> 0,
                      pctPart1  |-> IF global THEN ui.globalPctPart1 ELSE 80,
                      typePart1 |-> IF global THEN ui.globalTypePart1 ELSE "Personne Morale",
                      typePart2 |-> IF global THEN ui.globalTypePart2 ELSE "Personne Physique" ])]
    /\ UNCHANGED <<tz, config, pc, results, summary, curr, accruals, callers>>

\* removePeriod(id)
RemovePeriod(id) ==
    /\ Ready
    /\ ui' = [Handled(ui) EXCEPT !.periods =
                IF Len(ui.periods) > 1
                THEN SelectSeq(ui.periods, LAMBDA p : p.id # id)
                ELSE @]
    /\ UNCHANGED <<tz, config, pc, results, summary, curr, accruals, callers>>

\* The updates the injection cards send: month, year and amount always, the
\* split fields from the controls rendered while splitMode === "Variable".
Updates(mode) ==
    { [amount |-> 50000] }
        \cup (IF mode = "Variable" THEN { [pctPart1 |-> 50] } ELSE {})

\* { ...p, ...updates }
Spread(p, updates) ==
    [ f \in DOMAIN p |-> IF f \in DOMAIN updates THEN updates[f] ELSE p[f] ]

\* Faulty variant: the matching record is assigned in place, so the list the
\* rendered config holds changes with it.
UpdatePeriod_InPlace(id, updates) ==
    /\ Ready
    /\ ui' = [Handled(ui) EXCEPT !.periods =
                [ i \in 1..Len(ui.periods) |->
                    IF ui.periods[i].id = id THEN Spread(ui.periods[i], updates)
                                             ELSE ui.periods[i] ]]
    /\ config' = [config EXCEPT !.periods = ui'.periods]
    /\ UNCHANGED <<tz, pc, results, summary, curr, accruals, callers>>

\* updatePeriod(id, updates)
UpdatePeriod(id, updates) ==
    /\ Ready
    /\ ui' = [Handled(ui) EXCEPT !.periods =
                [ i \in 1..Len(ui.periods) |->
                    IF ui.periods[i].id = id THEN Spread(ui.periods[i], updates)
                                             ELSE ui.periods[i] ]]
    /\ UNCHANGED <<tz, config, pc, results, summary, curr, accruals, callers>>

\* JSON.stringify(config): the values in document order.
JSONstringify(cfg) ==
    << [ i \in 1..Len(cfg.periods) |->
           LET q == cfg.periods[i]
           IN  <<q.id, q.month, q.year, q.amount, q.pctPart1, q.typePart1, q.typePart2>> ],
       cfg.annualRate, cfg.tvaRate, cfg.rasMoraleRate, cfg.rasPhysiqueRate,
       cfg.endDate, cfg.splitMode, cfg.calculationBase >>

\* JSON.parse of such a document.
JSONparse(doc) ==
    [ periods         |-> [ i \in 1..Len(doc[1]) |->
                              [ id |-> doc[1][i][1], month |-> doc[1][i][2], year |-> doc[1][i][3],
                                amount |-> doc[1][i][4], pctPart1 |-> doc[1][i][5],
                                typePart1 |-> doc[1][i][6], typePart2 |-> doc[1][i][7] ] ],
      annualRate      |-> doc[2],
      tvaRate         |-> doc[3],
      rasMoraleRate   |-> doc[4],
      rasPhysiqueRate |-> doc[5],
      endDate         |-> doc[6],
      splitMode       |-> doc[7],
      calculationBase |-> doc[8] ]

\* Answers to prompt("Nom du scénario :"): cancelled or empty, or a name.
PromptAnswers == {"", "Simulation"}

\* handleSaveScenario(), the prompt answering name, Date.now() returning now
HandleSaveScenario(name, now) ==
    /\ Ready
    /\ Len(ui.savedScenarios) < MaxScenarios
    /\ ui' = IF name = "" THEN Handled(ui)
             ELSE [Handled(ui) EXCEPT !.savedScenarios =
                      << [id |-> now, name |-> name, timestamp |-> now,
                          config |-> JSONparse(JSONstringify(config))] >> \o ui.savedScenarios]
    /\ UNCHANGED <<tz, config, pc, results, summary, curr, accruals, callers>>

\* loadScenario(s); a scenario saved by handleSaveScenario always carries a
\* calculationBase, so s.config.calculationBase || "Mensuel" is that value.
LoadScenario(s) ==
    /\ Ready
    /\ ui' = [Handled(ui) EXCEPT
                !.periods         = s.config.periods,
                !.annualRate      = s.config.annualRate,
                !.tvaRate         = s.config.tvaRate,
                !.rasMorale       = s.config.rasMoraleRate,
                !.rasPhysique     = s.config.rasPhysiqueRate,
                !.endDate         = s.config.endDate,
                !.splitMode       = s.config.splitMode,
                !.calculationBase = s.config.calculationBase,
                !.chosen          = <<s.config.endDate>>,
                !.loaded          = <<s.config>>]
    /\ UNCHANGED <<tz, config, pc, results, summary, curr, accruals, callers>>

\* A field of a CSV line: <<>> when missing or empty, <<v>> when it reads as v.
\* parseInt(x) || dflt, parseFloat(x) || dflt: NaN and 0 give the default
NumberOr(line, k, dflt) ==
    IF k > Len(line) THEN dflt
    ELSE IF line[k] = <<>> THEN dflt
    ELSE IF line[k][1] = 0 THEN dflt
    ELSE line[k][1]

\* (x as PersonType) || dflt: undefined and "" give the default
StringOr(line, k, dflt) ==
    IF k > Len(line) THEN dflt
    ELSE IF line[k] = <<>> THEN dflt
    ELSE line[k][1]

\* Files offered to the import, as lines of ';'-separated fields, the first
\* line being the header; <<>> is a blank line.
CsvHeader == << <<"Mois">>, <<"Annee">>, <<"Montant">>, <<"Pct">>, <<"Type1">>, <<"Type2">> >>

CsvFiles ==
    { << CsvHeader, <<>> >>,
      << CsvHeader,
         << <<3>>, <<2025>>, <<70000>>, <<50>>, <<"Personne Physique">>, <<"Personne Morale">> >>,
         <<>>,
         << <<12>>, <<>>, <<30000>> >> >> }

\* reader.onload of handleCsvImport, the file reading as lines, Date.now() returning now
HandleCsvImport(file, now) ==
    /\ Ready
    /\ LET lines == SelectSeq(file, LAMBDA l : l # <<>>)
           rows  == Tail(lines)
           newPeriods ==
               [ k \in 1..Len(rows) |->
                   [ id        |-> ImportId(k - 1, now),
                     month     |-> NumberOr(rows[k], 1, 1),
                     year      |-> NumberOr(rows[k], 2, 2025),
                     amount    |-> NumberOr(rows[k], 3, 0),
                     pctPart1  |-> NumberOr(rows[k], 4, 80),
                     typePart1 |-> StringOr(rows[k], 5, "Personne Morale"),
                     typePart2 |-> StringOr(rows[k], 6, "Personne Physique") ] ]
       IN  ui' = [Handled(ui) EXCEPT !.periods = IF Len(newPeriods) > 0 THEN newPeriods ELSE @]
    /\ UNCHANGED <<tz, config, pc, results, summary, curr, accruals, callers>>

\* Identifiers of the cards on screen, and one that is on no card.
NoSuchId == 0
ShownIds == { ui.periods[i].id : i \in 1..Len(ui.periods) }

\* A control reports a value other than the one it shows.
UINext ==
    \/ Commit
    \/ \E val \in DateChoices : HandleEndDateChange(val)
    \/ \E checked \in BOOLEAN \ {ui.repaymentEndOfMonth} : SetRepaymentEndOfMonth(checked)
    \/ \E base \in CalculationBase \ {ui.calculationBase} : SetCalculationBase(base)
    \/ \E field \in DOMAIN RateInputs : \E v \in RateInputs[field] \ {ui[field]} : SetRate(field, v)
    \/ \E mode \in {"Global", "Variable"} \ {ui.splitMode} : SetSplitMode(mode)
    \/ \E field \in DOMAIN GlobalSplitInputs :
          \E v \in GlobalSplitInputs[field] \ {ui[field]} : SetGlobalSplit(field, v)
    \/ \E now \in ClockValues : AddPeriod(now)
    \/ \E id \in ShownIds : RemovePeriod(id)
    \/ \E id \in ShownIds : \E updates \in Updates(ui.splitMode) : UpdatePeriod(id, updates)
    \/ \E name \in PromptAnswers, now \in ClockValues : HandleSaveScenario(name, now)
    \/ \E k \in 1..Len(ui.savedScenarios) : LoadScenario(ui.savedScenarios[k])
    \/ \E file \in CsvFiles, now \in ClockValues : HandleCsvImport(file, now)

UISpec == UIInit /\ [][UINext]_vars

\* Sessions in which the user only edits the injection list: cards added,
\* removed and updated, the split mode switched.
ListNext ==
    \/ Commit
    \/ \E mode \in {"Global", "Variable"} \ {ui.splitMode} : SetSplitMode(mode)
    \/ \E now \in ClockValues : AddPeriod(now)
    \/ \E id \in ShownIds : RemovePeriod(id)
    \/ \E id \in ShownIds \cup {NoSuchId} : \E updates \in Updates(ui.splitMode) : UpdatePeriod(id, updates)

ListSpec == UIInit /\ [][ListNext]_vars

----------------------------------------------------------------------------
(* Properties of the application state *)

\* C24: after any sequence of UI operations from the initial state (addPeriod,
\* removePeriod, updatePeriod, CSV import, loadScenario, at any clock values),
\* the Injections of the current Configuration have pairwise distinct identifiers.
IdentifiersPairwiseDistinct ==
    \A i, j \in 1..Len(ui.periods) :
        i # j => ui.periods[i].id # ui.periods[j].id

\* C25: updatePeriod(id, updates) is a replace-whole-record-by-key: the new list
\* has the same length and order, the record with that id is replaced by one
\* carrying the updates with its id and untouched fields kept, every other
\* record is unchanged, the rendered Configuration and the results computed
\* from it are not modified, and an id matching no record leaves the list as it was.
UpdateReplacesRecordByKey ==
    [][ \A id \in ShownIds \cup {NoSuchId} : \A updates \in Updates(ui.splitMode) :
          UpdatePeriod(id, updates) =>
              /\ Len(ui'.periods) = Len(ui.periods)
              /\ \A i \in 1..Len(ui.periods) :
                    LET old == ui.periods[i]
                        new == ui'.periods[i]
                    IN  IF old.id = id
                        THEN /\ new.id = id
                             /\ \A f \in DOMAIN updates : new[f] = updates[f]
                             /\ \A f \in DOMAIN old \ DOMAIN updates : new[f] = old[f]
                        ELSE new = old
              /\ id \notin ShownIds => ui'.periods = ui.periods
              /\ config' = config
              /\ calculateCCAResults(config') = ShownResults
              /\ summarizeResults(calculateCCAResults(config')) = ShownSummary
              /\ calculateMonthlyAccruals(config') = ShownMonthlyAccruals ]_vars

\* An update has replaced one of several cards and has not been rendered yet:
\* the rendered Configuration still holds that card with its previous amount.
OneCardOfSeveralUpdated ==
    /\ Len(ui.periods) >= 2
    /\ Len(config.periods) = Len(ui.periods)
    /\ Len(ShownResults) = Len(ui.periods)
    /\ \E i \in 1..Len(ui.periods) :
          /\ ui.periods[i].amount = 50000
          /\ config.periods[i].amount # 50000
          /\ ShownResults[i].amountTotal # Num(50000)
          /\ ui.periods[i].id = config.periods[i].id
          /\ \A j \in 1..Len(ui.periods) :
                j # i => /\ ui.periods[j] = config.periods[j]
                         /\ ui.periods[j].id # ui.periods[i].id

\* C26: whenever splitMode is 'Global' and the effects have settled, every
\* Injection has pctPart1 = globalPctPart1, typePart1 = globalTypePart1 and
\* typePart2 = globalTypePart2, after any sequence of UI operations.
GlobalSplitHoldsOnEveryInjection ==
    (Settled /\ ui.splitMode = "Global") =>
        \A i \in 1..Len(ui.periods) :
            /\ ui.periods[i].pctPart1 = ui.globalPctPart1
            /\ ui.periods[i].typePart1 = ui.globalTypePart1
            /\ ui.periods[i].typePart2 = ui.globalTypePart2

\* C27: loading a saved scenario restores the saved Configuration: once the
\* effects have settled after loadScenario(s), the periods, the four rates, the
\* end date, the split mode and the accrual basis equal those stored in s; and
\* no later event alters a stored scenario.
LoadRestoresSavedConfiguration ==
    [][ /\ (Settled' /\ ui'.loaded # <<>>) => ConfigOf(ui') = ui'.loaded[1]
        /\ \A k \in 1..Len(ui.savedScenarios) :
              ui'.savedScenarios[k + Len(ui'.savedScenarios) - Len(ui.savedScenarios)]
                  = ui.savedScenarios[k] ]_vars

\* C28: the injection list is never empty: from the initial single injection,
\* after any sequence of addPeriod, removePeriod, updatePeriod, CSV import and
\* loadScenario the Configuration holds at least one Injection; removePeriod on
\* the only remaining Injection and a CSV import with no data row leave the list
\* unchanged.
InjectionListNeverEmpty ==
    [][ /\ Len(ui'.periods) >= 1
        /\ \A id \in ShownIds :
              (Len(ui.periods) = 1 /\ RemovePeriod(id)) => ui'.periods = ui.periods
        /\ \A file \in CsvFiles, now \in ClockValues :
              (Len(SelectSeq(file, LAMBDA l : l # <<>>)) <= 1 /\ HandleCsvImport(file, now))
                  => ui'.periods = ui.periods ]_vars

\* C29: while the 'end of month' option is on, once the effects have settled
\* the stored end date is the last calendar day of the month of the date last
\* chosen (in the date field or by loadScenario), and applying
\* handleEndDateChange to the stored value again changes nothing.
EndDateIsLastDayOfChosenMonth ==
    (Settled /\ ui.repaymentEndOfMonth /\ ui.chosen # <<>>) =>
        LET val == ui.chosen[1]
        IN  /\ ui.endDate = [y |-> val.y, m |-> val.m, d |-> DaysInMonth(val.y, val.m)]
            /\ SnapToEndOfMonth(ui.endDate) = ui.endDate

====
